---- MODULE Spec2Model ----
(***************************************************************************)
(* The F1 dashboard script hello.py as a state machine.                    *)
(*                                                                         *)
(* The script has two parts: the data load and the two joins (lines 11-52, *)
(* "runs once at import time") and the interaction part (lines 57-200,     *)
(* "runs on every interaction").  A table is a sequence of rows, a row is  *)
(* a record indexed by column name.  A cell of a numeric column is a value *)
(* tagged "num" (a rational n/d), "nan" (pandas' missing value) or "str"   *)
(* (text that does not parse as a number).                                 *)
(***************************************************************************)
EXTENDS Integers, Sequences, FiniteSets, TLC

VARIABLES
    src,            \* the external data source read by get_df (never written)
    T,              \* T = load_tables()                       (line 22)
    MASTER,         \* MASTER = make_master()                  (line 39)
    RESULTS,        \* RESULTS = make_results()                (line 52)
    loads,          \* how many times the body of load_tables has run
    joins,          \* how many times the bodies of make_master/make_results ran
    pc,             \* position of the script
    wYear, wDriver, \* state the two selectboxes keep between interactions
    years, year, drivers, driver,   \* lines 61-66
    df,             \* line 69
    fastest_lap,    \* line 79
    pits, avg_pit,  \* lines 83-88
    pts,            \* line 96
    fastest_by_circ,\* lines 130-135
    pts_df,         \* lines 167-171
    map_df,         \* lines 184-187
    out,            \* what the current interaction has emitted, in order
    err             \* the exception that ended the script, "" if none

tables == <<src, T, MASTER, RESULTS, loads, joins>>
widgets == <<wYear, wDriver>>
locals == <<years, year, drivers, driver, df, fastest_lap, pits, avg_pit, pts,
            fastest_by_circ, pts_df, map_df>>
vars == <<src, T, MASTER, RESULTS, loads, joins, pc, wYear, wDriver,
          years, year, drivers, driver, df, fastest_lap, pits, avg_pit, pts,
          fastest_by_circ, pts_df, map_df, out, err>>

----------------------------------------------------------------------------
(* Cells *)

Num(k) == [t |-> "num", n |-> k, d |-> 1]
NaN == [t |-> "nan", n |-> 0, d |-> 1]
Str == [t |-> "str", n |-> 0, d |-> 1]       \* unparsable text
None == [t |-> "none", n |-> 0, d |-> 1]     \* Python's None
Unset == [t |-> "unset", n |-> 0, d |-> 1]   \* a name not yet assigned

IsNum(c) == c.t = "num"

\* pd.to_numeric(col, errors="coerce") on one cell
to_numeric(c) == IF c.t = "num" THEN c ELSE NaN

\* .astype(int) on a column fails on a missing value
CanAstypeInt(col) == \A i \in 1..Len(col) : IsNum(col[i])

\* x / k on one cell; a missing value stays missing
DivCell(c, k) == IF IsNum(c) THEN [t |-> "num", n |-> c.n, d |-> c.d * k] ELSE c

NumLess(a, b) == a.n * b.d < b.n * a.d
NumEq(a, b) == a.n * b.d = b.n * a.d

----------------------------------------------------------------------------
(* Sequences and tables *)

RECURSIVE Flatten(_)
Flatten(ss) == IF ss = <<>> THEN <<>> ELSE Head(ss) \o Flatten(Tail(ss))

Column(tbl, c) == [i \in 1..Len(tbl) |-> tbl[i][c]]

\* tbl[[c1, c2, ...]]
Project(tbl, cols) == [i \in 1..Len(tbl) |-> [c \in cols |-> tbl[i][c]]]

\* tbl[c] = pd.to_numeric(tbl[c], errors="coerce")
Coerce(tbl, c) ==
    [i \in 1..Len(tbl) |-> [tbl[i] EXCEPT ![c] = to_numeric(tbl[i][c])]]

\* the rows of right that agree with row l on every column of on, in right's order
Matches(l, right, on) ==
    SelectSeq(right, LAMBDA r : \A k \in on : r[k] = l[k])

\* the mutant: only the first row of right is looked at
MergeFirstOnly(left, right, on) ==
    Flatten([i \in 1..Len(left) |->
        IF right # <<>> /\ (\A k \in on : right[1][k] = left[i][k])
        THEN <<left[i] @@ right[1]>> ELSE <<>>])

\* left.merge(right, on=on): inner join, in the order of the left rows
Merge(left, right, on) ==
    Flatten([i \in 1..Len(left) |->
        LET m == Matches(left[i], right, on)
        IN  [j \in 1..Len(m) |-> left[i] @@ m[j]]])

\* .drop_duplicates() / .unique(): the first occurrence of each value, in order
RECURSIVE Unique(_)
Unique(s) ==
    IF s = <<>> THEN <<>>
    ELSE LET init == Unique(SubSeq(s, 1, Len(s) - 1))
             x == s[Len(s)]
         IN  IF \E i \in 1..Len(init) : init[i] = x THEN init ELSE Append(init, x)

\* the order of a sort on a numeric key: ascending, missing values last
KeyBefore(a, b) == IsNum(a) /\ (~IsNum(b) \/ NumLess(a, b))

\* the pair x put into the sorted sequence s after every pair not greater
RECURSIVE Insert(_, _)
Insert(x, s) ==
    IF s = <<>> THEN <<x>>
    ELSE IF KeyBefore(x[1], Head(s)[1]) THEN <<x>> \o s
    ELSE <<Head(s)>> \o Insert(x, Tail(s))

RECURSIVE SortPairs(_)
SortPairs(s) ==
    IF s = <<>> THEN <<>>
    ELSE Insert(s[Len(s)], SortPairs(SubSeq(s, 1, Len(s) - 1)))

\* s sorted (stably) by the numeric keys keys[i] of its elements
SortByKey(s, keys) ==
    LET sorted == SortPairs([i \in 1..Len(s) |-> <<keys[i], s[i]>>])
    IN  [i \in 1..Len(s) |-> sorted[i][2]]

\* Python's order on the strings the model uses
StrRank == [alonso |-> 1, hamilton |-> 2, monza |-> 3, spa |-> 4]
StrLess(a, b) == StrRank[a] < StrRank[b]

\* .min() / .sum() / .mean() of a column skip missing values
Numeric(col) == SelectSeq(col, IsNum)

RECURSIVE MinCell(_)
MinCell(col) ==
    IF col = <<>> THEN NaN
    ELSE LET rest == MinCell(Tail(col))
             x == Head(col)
         IN  IF ~IsNum(x) THEN rest
             ELSE IF ~IsNum(rest) \/ ~NumLess(rest, x) THEN x
             ELSE rest

RECURSIVE SumCell(_)
SumCell(col) ==
    IF col = <<>> THEN Num(0)
    ELSE LET rest == SumCell(Tail(col))
             x == Head(col)
         IN  IF ~IsNum(x) THEN rest
             ELSE [t |-> "num", n |-> x.n * rest.d + rest.n * x.d, d |-> x.d * rest.d]

MeanCell(col) ==
    IF Numeric(col) = <<>> THEN NaN
    ELSE DivCell(SumCell(col), Len(Numeric(col)))

\* int(x) of a number
AsInt(c) == c.n \div c.d

----------------------------------------------------------------------------
(* The input tables *)

MaxLaps == 3
MaxPits == 2
MaxResults == 2
MaxDim == 2

SeqsUpTo(S, k) == UNION {[1..m -> S] : m \in 0..k}

DriverRow(id, ref) == [driverId |-> id, driverRef |-> ref]
RaceRow(id, y, rnd, c) == [raceId |-> id, year |-> y, round |-> rnd, circuitId |-> c]
CircuitRow(id, nm, la, lo) == [circuitId |-> id, name |-> nm, lat |-> la, lng |-> lo]
LapRow(r, dr, l, ms) == [raceId |-> r, driverId |-> dr, lap |-> l, milliseconds |-> ms]
ResultRow(r, dr, p) == [raceId |-> r, driverId |-> dr, points |-> p]
PitRow(r, dr, st, ms) == [raceId |-> r, driverId |-> dr, stop |-> st, milliseconds |-> ms]

\* A small season: Alonso drives races 1 (Monza) and 2 (Spa) of 2021,
\* Hamilton race 3 (Monza) of 2020; Spa has no usable latitude.
BaseDrivers == <<DriverRow(1, "alonso"), DriverRow(2, "hamilton")>>
BaseRaces == <<RaceRow(1, Num(2021), 1, 1), RaceRow(2, Num(2021), 2, 2),
               RaceRow(3, Num(2020), 1, 1)>>
BaseCircuits == <<CircuitRow(1, "monza", Num(45), Num(9)),
                  CircuitRow(2, "spa", Str, Num(5))>>
BaseLaps == <<LapRow(1, 1, Num(1), Num(90000)), LapRow(2, 1, Num(1), Num(91000)),
              LapRow(3, 2, Num(1), Num(92000)), LapRow(1, 1, Num(2), Num(89000))>>
BaseResults == <<ResultRow(1, 1, Num(25)), ResultRow(2, 1, Num(18))>>
BasePits == <<PitRow(1, 1, Num(1), Num(20000)), PitRow(1, 1, Num(2), Num(30000))>>

Base == [drivers |-> BaseDrivers, races |-> BaseRaces, circuits |-> BaseCircuits,
         lap_times |-> BaseLaps, results |-> BaseResults, pit_stops |-> BasePits]

\* The rows each table is varied over.  Driver 3, race 4 and circuit 3 are
\* keys no other table of the small season has.
DriverRows == {DriverRow(id, ref) : id \in {1, 2}, ref \in {"alonso", "hamilton"}}
RaceRows == {RaceRow(1, Num(2021), 1, 1), RaceRow(1, Num(2020), 1, 1),
             RaceRow(2, Num(2021), 2, 2), RaceRow(3, Num(2020), 1, 1),
             RaceRow(3, Num(2021), 2, 3), RaceRow(3, Str, 1, 1)}
CircuitRows == {CircuitRow(id, nm, la, Num(9)) : id \in {1, 2}, nm \in {"monza", "spa"},
                                                 la \in {Num(45), Str}}
LapRows == {LapRow(1, 1, Num(1), Num(90000)), LapRow(1, 1, Num(2), Num(91000)),
            LapRow(2, 1, Num(1), Num(90000)), LapRow(1, 2, Num(1), Str),
            LapRow(3, 2, Num(1), Num(91000)), LapRow(1, 1, Str, Num(90000)),
            LapRow(4, 3, Str, Num(90000))}
ResultRows == {ResultRow(1, 1, p) : p \in {Num(25), Num(18), Str}}
              \cup {ResultRow(3, 2, p) : p \in {Num(25), Num(18), Str}}
PitRows == {PitRow(1, 1, st, ms) : st \in {Num(1), Str},
                                   ms \in {Num(20000), Num(25000), Str}}
           \cup {PitRow(3, 1, Num(1), Num(20000))}

\* every table in turn takes all its values up to its bound, the others
\* keep the rows of the small season
Sources ==
    {[Base EXCEPT !.lap_times = x] : x \in SeqsUpTo(LapRows, MaxLaps)}
    \cup {[Base EXCEPT !.pit_stops = x] : x \in SeqsUpTo(PitRows, MaxPits)}
    \cup {[Base EXCEPT !.results = x] : x \in SeqsUpTo(ResultRows, MaxResults)}
    \cup {[Base EXCEPT !.drivers = x] : x \in SeqsUpTo(DriverRows, MaxDim)}
    \cup {[Base EXCEPT !.races = x] : x \in SeqsUpTo(RaceRows, MaxDim)}
    \cup {[Base EXCEPT !.circuits = x] : x \in SeqsUpTo(CircuitRows, MaxDim)}

NoTables == [drivers |-> <<>>, races |-> <<>>, circuits |-> <<>>,
             lap_times |-> <<>>, results |-> <<>>, pit_stops |-> <<>>]

----------------------------------------------------------------------------
(* The script *)

ResetLocals ==
    /\ years' = <<>>
    /\ year' = 0
    /\ drivers' = <<>>
    /\ driver' = ""
    /\ df' = <<>>
    /\ fastest_lap' = Unset
    /\ pits' = <<>>
    /\ avg_pit' = Unset
    /\ pts' = Unset
    /\ fastest_by_circ' = <<>>
    /\ pts_df' = <<>>
    /\ map_df' = <<>>

Init ==
    /\ src \in Sources
    /\ T = NoTables
    /\ MASTER = <<>>
    /\ RESULTS = <<>>
    /\ loads = 0
    /\ joins = 0
    /\ pc = "load"
    /\ wYear = <<>>
    /\ wDriver = <<>>
    /\ years = <<>>
    /\ year = 0
    /\ drivers = <<>>
    /\ driver = ""
    /\ df = <<>>
    /\ fastest_lap = Unset
    /\ pits = <<>>
    /\ avg_pit = Unset
    /\ pts = Unset
    /\ fastest_by_circ = <<>>
    /\ pts_df = <<>>
    /\ map_df = <<>>
    /\ out = <<>>
    /\ err = ""

\* one call of text / alert / plotly / separator, with the driver and the
\* season its f-string names
Emitted(kind, id, drv, yr) == [kind |-> kind, id |-> id, driver |-> drv, year |-> yr]

\* the script stops with an exception
Raise(at, e) == pc' = at /\ err' = e

\* lines 14-20, the body of load_tables
load_tables_body(tbls) ==
    [tbls EXCEPT
        !.races = [i \in 1..Len(tbls.races) |->
                     [tbls.races[i] EXCEPT !.year = AsInt(to_numeric(@))]],
        !.circuits = [i \in 1..Len(tbls.circuits) |->
                        [circuitId |-> tbls.circuits[i].circuitId,
                         circuitName |-> tbls.circuits[i].name,
                         lat |-> tbls.circuits[i].lat,
                         lng |-> tbls.circuits[i].lng]]]

\* lines 13-22: T = load_tables()
LoadTables ==
    /\ pc = "load"
    /\ loads' = loads + 1
    /\ IF CanAstypeInt(Column(Coerce(src.races, "year"), "year"))
       THEN /\ T' = load_tables_body(src)
            /\ pc' = "master"
            /\ err' = err
       ELSE /\ Raise("fatal", "ValueError")
            /\ T' = T
    /\ UNCHANGED <<src, MASTER, RESULTS, joins, widgets, locals, out>>

\* lines 27-32, the three merges of make_master
master_merges(t) ==
    Merge(Merge(Merge(t.lap_times,
                      Project(t.drivers, {"driverId", "driverRef"}), {"driverId"}),
                Project(t.races, {"raceId", "year", "round", "circuitId"}), {"raceId"}),
          Project(t.circuits, {"circuitId", "circuitName", "lat", "lng"}), {"circuitId"})

\* lines 34-36, the casts of make_master (the lap column has passed astype)
master_casts(m) ==
    [i \in 1..Len(m) |->
        LET ms == to_numeric(m[i].milliseconds)
        IN  [m[i] EXCEPT !.lap = AsInt(to_numeric(@)), !.milliseconds = ms]
            @@ [lap_sec |-> DivCell(ms, 1000)]]

\* lines 24-39: MASTER = make_master()
MakeMaster ==
    /\ pc = "master"
    /\ joins' = joins + 1
    /\ LET m == master_merges(T)
       IN  IF CanAstypeInt(Column(Coerce(m, "lap"), "lap"))
           THEN /\ MASTER' = master_casts(m)
                /\ pc' = "results"
                /\ err' = err
           ELSE /\ Raise("fatal", "ValueError")
                /\ MASTER' = MASTER
    /\ UNCHANGED <<src, T, RESULTS, loads, widgets, locals, out>>

\* lines 44-50, the body of make_results
make_results_body(t) ==
    Coerce(Merge(Merge(t.results,
                       Project(t.drivers, {"driverId", "driverRef"}), {"driverId"}),
                 Project(t.races, {"raceId", "year", "round"}), {"raceId"}),
           "points")

\* lines 41-52: RESULTS = make_results()
MakeResults ==
    /\ pc = "results"
    /\ joins' = joins + 1
    /\ RESULTS' = make_results_body(T)
    /\ pc' = "ui"
    /\ UNCHANGED <<src, T, MASTER, loads, widgets, locals, out, err>>

\* lines 57-58: one run of the interaction part starts
Begin ==
    /\ pc = "ui"
    /\ out' = Append(out, Emitted("text", "title", "", 0))
    /\ pc' = "year"
    /\ UNCHANGED <<tables, widgets, locals, err>>

\* selectbox(label, options, default): the value the widget holds, the
\* default while it holds none
selectbox(stored, default) == IF stored = <<>> THEN default ELSE stored[1]

\* line 61
year_options(master) ==
    LET u == Unique(Column(master, "year"))
    IN  SortByKey(u, [i \in 1..Len(u) |-> Num(0 - u[i])])

\* lines 61-62
SelectYear ==
    /\ pc = "year"
    /\ years' = year_options(MASTER)
    /\ IF years' = <<>>
       THEN /\ Raise("error", "IndexError")
            /\ year' = year
       ELSE /\ year' = selectbox(wYear, years'[1])
            /\ pc' = "driver"
            /\ err' = err
    /\ UNCHANGED <<tables, widgets, drivers, driver, df, fastest_lap, pits, avg_pit,
                   pts, fastest_by_circ, pts_df, map_df, out>>

\* the mutant: the drivers of every season
driver_options_all(master, y) ==
    LET u == Unique(Column(master, "driverRef"))
    IN  SortByKey(u, [i \in 1..Len(u) |-> Num(StrRank[u[i]])])

\* line 65
driver_options(master, y) ==
    LET u == Unique(Column(SelectSeq(master, LAMBDA r : r.year = y), "driverRef"))
    IN  SortByKey(u, [i \in 1..Len(u) |-> Num(StrRank[u[i]])])

\* lines 65-66
SelectDriver ==
    /\ pc = "driver"
    /\ drivers' = driver_options(MASTER, year)
    /\ IF drivers' = <<>>
       THEN /\ Raise("error", "IndexError")
            /\ driver' = driver
       ELSE /\ driver' = selectbox(wDriver, drivers'[1])
            /\ pc' = "filter"
            /\ err' = err
    /\ UNCHANGED <<tables, widgets, years, year, df, fastest_lap, pits, avg_pit,
                   pts, fastest_by_circ, pts_df, map_df, out>>

\* the mutant: the two conditions of the mask joined by "or"
select_either(view, y, dr) ==
    SelectSeq(view, LAMBDA r : r.year = y \/ r.driverRef = dr)

\* lines 69, 96, 167: view[(view["year"] == y) & (view["driverRef"] == dr)]
select(view, y, dr) ==
    SelectSeq(view, LAMBDA r : r.year = y /\ r.driverRef = dr)

\* the mutant: the warning is emitted and the script goes on
FilterNoStop ==
    /\ pc = "filter"
    /\ df' = select(MASTER, year, driver)
    /\ out' = IF df' = <<>>
              THEN Append(out, Emitted("alert", "no_data", driver, year))
              ELSE Append(out, Emitted("separator", "sep1", "", 0))
    /\ pc' = "fastest_lap"
    /\ UNCHANGED <<tables, widgets, years, year, drivers, driver, fastest_lap, pits,
                   avg_pit, pts, fastest_by_circ, pts_df, map_df, err>>

\* lines 69-74: the filter and the stop on an empty subset
Filter ==
    /\ pc = "filter"
    /\ df' = select(MASTER, year, driver)
    /\ IF df' = <<>>
       THEN /\ out' = Append(out, Emitted("alert", "no_data", driver, year))
            /\ Raise("exit", "SystemExit")
       ELSE /\ out' = Append(out, Emitted("separator", "sep1", "", 0))
            /\ pc' = "fastest_lap"
            /\ err' = err
    /\ UNCHANGED <<tables, widgets, years, year, drivers, driver, fastest_lap, pits,
                   avg_pit, pts, fastest_by_circ, pts_df, map_df>>

\* lines 79-80
FastestLap ==
    /\ pc = "fastest_lap"
    /\ fastest_lap' = MinCell(Column(df, "lap_sec"))
    /\ out' = Append(out, Emitted("text", "fastest_lap", "", 0))
    /\ pc' = "avg_pit"
    /\ UNCHANGED <<tables, widgets, years, year, drivers, driver, df, pits, avg_pit,
                   pts, fastest_by_circ, pts_df, map_df, err>>

\* lines 83-87
pit_rows(pit_stops, sub) ==
    Coerce(Merge(pit_stops, Unique(Project(sub, {"raceId", "driverId"})),
                 {"raceId", "driverId"}),
           "milliseconds")

\* line 88
avg_pit_of(p) ==
    IF p # <<>> THEN DivCell(MeanCell(Column(p, "milliseconds")), 1000) ELSE None

\* the mutant: the milliseconds are cast on the pit-stop table itself
AvgPitInPlace ==
    /\ pc = "avg_pit"
    /\ pits' = pit_rows(T.pit_stops, df)
    /\ avg_pit' = avg_pit_of(pits')
    /\ T' = [T EXCEPT !.pit_stops = Coerce(@, "milliseconds")]
    /\ out' = Append(out, Emitted("text",
                 IF avg_pit' # None THEN "avg_pit" ELSE "avg_pit_na", "", 0))
    /\ pc' = "points_total"
    /\ UNCHANGED <<src, MASTER, RESULTS, loads, joins, widgets, years, year, drivers,
                   driver, df, fastest_lap, pts, fastest_by_circ, pts_df, map_df, err>>

\* lines 83-93
AvgPit ==
    /\ pc = "avg_pit"
    /\ pits' = pit_rows(T.pit_stops, df)
    /\ avg_pit' = avg_pit_of(pits')
    /\ out' = Append(out, Emitted("text",
                 IF avg_pit' # None THEN "avg_pit" ELSE "avg_pit_na", "", 0))
    /\ pc' = "points_total"
    /\ UNCHANGED <<tables, widgets, years, year, drivers, driver, df, fastest_lap,
                   pts, fastest_by_circ, pts_df, map_df, err>>

\* the mutant: no matching row gives a missing value, as a mean would
total_points_nan(y, dr, results) ==
    IF select(results, y, dr) = <<>> THEN NaN
    ELSE SumCell(Column(select(results, y, dr), "points"))

\* line 96
total_points(y, dr, results) == SumCell(Column(select(results, y, dr), "points"))

\* lines 96-99
TotalPoints ==
    /\ pc = "points_total"
    /\ pts' = total_points(year, driver, RESULTS)
    /\ out' = out \o <<Emitted("text", "points", "", 0), Emitted("separator", "sep2", "", 0)>>
    /\ pc' = "pace"
    /\ UNCHANGED <<tables, widgets, years, year, drivers, driver, df, fastest_lap,
                   pits, avg_pit, fastest_by_circ, pts_df, map_df, err>>

\* lines 104-125: the lap-time line chart and the histogram
PaceCharts ==
    /\ pc = "pace"
    /\ out' = out \o <<Emitted("plotly", "fig1", driver, year),
                       Emitted("plotly", "fig2", driver, year)>>
    /\ pc' = "fastest_by_circ"
    /\ UNCHANGED <<tables, widgets, locals, err>>

\* the mutant: the groups are left in the order of their names
fastest_by_circ_unsorted(sub) ==
    LET u == Unique(Column(sub, "circuitName"))
        names == SortByKey(u, [i \in 1..Len(u) |-> Num(StrRank[u[i]])])
    IN  [i \in 1..Len(names) |->
           [circuitName |-> names[i],
            lap_sec |-> MinCell(Column(
                SelectSeq(sub, LAMBDA r : r.circuitName = names[i]), "lap_sec"))]]

\* lines 130-135: groupby (groups in the order of their names), min, sort_values
fastest_by_circ_of(sub) ==
    LET u == Unique(Column(sub, "circuitName"))
        names == SortByKey(u, [i \in 1..Len(u) |-> Num(StrRank[u[i]])])
        groups == [i \in 1..Len(names) |->
                     [circuitName |-> names[i],
                      lap_sec |-> MinCell(Column(
                          SelectSeq(sub, LAMBDA r : r.circuitName = names[i]), "lap_sec"))]]
    IN  SortByKey(groups, Column(groups, "lap_sec"))

\* lines 130-142
FastestByCirc ==
    /\ pc = "fastest_by_circ"
    /\ fastest_by_circ' = fastest_by_circ_of(df)
    /\ out' = Append(out, Emitted("plotly", "fig3", driver, year))
    /\ pc' = "pit_section"
    /\ UNCHANGED <<tables, widgets, years, year, drivers, driver, df, fastest_lap,
                   pits, avg_pit, pts, pts_df, map_df, err>>

\* lines 147-161
PitSection ==
    /\ pc = "pit_section"
    /\ IF pits = <<>>
       THEN /\ out' = out \o <<Emitted("text", "pit_header", "", 0),
                               Emitted("alert", "no_pits", "", 0)>>
            /\ pits' = pits
            /\ pc' = "points_section"
            /\ err' = err
       ELSE IF CanAstypeInt(Column(Coerce(pits, "stop"), "stop"))
       THEN /\ pits' = [i \in 1..Len(pits) |->
                          [pits[i] EXCEPT !.stop = AsInt(to_numeric(@))]]
            /\ out' = out \o <<Emitted("text", "pit_header", "", 0),
                               Emitted("plotly", "fig4", driver, year)>>
            /\ pc' = "points_section"
            /\ err' = err
       ELSE /\ out' = Append(out, Emitted("text", "pit_header", "", 0))
            /\ pits' = pits
            /\ Raise("error", "ValueError")
    /\ UNCHANGED <<tables, widgets, years, year, drivers, driver, df, fastest_lap,
                   avg_pit, pts, fastest_by_circ, pts_df, map_df>>

\* line 171
points_by_round(p) ==
    LET kept == SelectSeq(Project(p, {"round", "points"}), LAMBDA r : IsNum(r.points))
    IN  SortByKey(kept, [i \in 1..Len(kept) |-> Num(kept[i].round)])

\* lines 166-178
PointsSection ==
    /\ pc = "points_section"
    /\ LET p == select(RESULTS, year, driver)
       IN  IF p = <<>>
           THEN /\ pts_df' = p
                /\ out' = out \o <<Emitted("text", "points_header", "", 0),
                                   Emitted("alert", "no_points", "", 0)>>
           ELSE /\ pts_df' = points_by_round(p)
                /\ out' = out \o <<Emitted("text", "points_header", "", 0),
                                   Emitted("plotly", "fig5", driver, year)>>
    /\ pc' = "map_section"
    /\ UNCHANGED <<tables, widgets, years, year, drivers, driver, df, fastest_lap,
                   pits, avg_pit, pts, fastest_by_circ, map_df, err>>

\* lines 184-187
distinct_circuits(sub) ==
    SelectSeq(Coerce(Coerce(Unique(Project(sub, {"circuitName", "lat", "lng"})),
                     "lat"), "lng"),
          LAMBDA r : IsNum(r.lat) /\ IsNum(r.lng))

\* lines 183-200
MapSection ==
    /\ pc = "map_section"
    /\ map_df' = distinct_circuits(df)
    /\ out' = out \o <<Emitted("text", "map_header", "", 0),
                       IF map_df' = <<>> THEN Emitted("alert", "no_location", "", 0)
                       ELSE Emitted("plotly", "fig6", driver, year)>>
    /\ pc' = "done"
    /\ UNCHANGED <<tables, widgets, years, year, drivers, driver, df, fastest_lap,
                   pits, avg_pit, pts, fastest_by_circ, pts_df, err>>

\* the run of the interaction part has ended
Ended == pc \in {"done", "exit", "error"}

\* the user picks a season among the options shown; the interaction part
\* (lines 57-200) runs again
ChooseSeason ==
    /\ Ended
    /\ \E i \in 1..Len(years) : wYear' = <<years[i]>>
    /\ wDriver' = wDriver
    /\ pc' = "ui"
    /\ out' = <<>>
    /\ err' = ""
    /\ ResetLocals
    /\ UNCHANGED tables

\* the user picks a driver among the options shown
ChooseDriver ==
    /\ Ended
    /\ \E i \in 1..Len(drivers) : wDriver' = <<drivers[i]>>
    /\ wYear' = wYear
    /\ pc' = "ui"
    /\ out' = <<>>
    /\ err' = ""
    /\ ResetLocals
    /\ UNCHANGED tables

Next ==
    \/ LoadTables
    \/ MakeMaster
    \/ MakeResults
    \/ Begin
    \/ SelectYear
    \/ SelectDriver
    \/ Filter
    \/ FastestLap
    \/ AvgPit
    \/ TotalPoints
    \/ PaceCharts
    \/ FastestByCirc
    \/ PitSection
    \/ PointsSection
    \/ MapSection
    \/ ChooseSeason
    \/ ChooseDriver

Spec == Init /\ [][Next]_vars

----------------------------------------------------------------------------
(* Where the script stands *)

\* T, MASTER and RESULTS exist
Built == pc \notin {"load", "master", "results", "fatal"}

\* the pit-stop section has raised
PitRaised == pc = "error" /\ err = "ValueError"

\* line 69 has run and the subset was not empty
PastFilter ==
    \/ pc \in {"fastest_lap", "avg_pit", "points_total", "pace", "fastest_by_circ",
               "pit_section", "points_section", "map_section", "done"}
    \/ PitRaised

PastAvgPit ==
    \/ pc \in {"points_total", "pace", "fastest_by_circ", "pit_section",
               "points_section", "map_section", "done"}
    \/ PitRaised

PastTotalPoints ==
    \/ pc \in {"pace", "fastest_by_circ", "pit_section", "points_section",
               "map_section", "done"}
    \/ PitRaised

PastFastestByCirc ==
    \/ pc \in {"pit_section", "points_section", "map_section", "done"}
    \/ PitRaised

PastSelectYear == pc \in {"driver", "filter", "exit"} \/ PastFilter
PastSelectDriver == pc \in {"filter", "exit"} \/ PastFilter

\* the k-th smallest element of a set of indices
Kth(idx, k) == CHOOSE i \in idx : Cardinality({j \in idx : j <= i}) = k

\* the sum of f[i].n over a finite set of indices
RECURSIVE SumOver(_, _)
SumOver(idx, f) ==
    IF idx = {} THEN 0
    ELSE LET i == CHOOSE j \in idx : TRUE IN f[i].n + SumOver(idx \ {i}, f)

YearValues == {2020, 2021, 2022}
DriverValues == {"alonso", "hamilton"}

----------------------------------------------------------------------------
(* C1 *)

\* sub is what a linear scan of view for (y, dr) gives: the matching rows,
\* all of them, once each, in the order they have in view
IsScanOf(sub, view, y, dr) ==
    LET idx == {i \in 1..Len(view) : view[i].year = y /\ view[i].driverRef = dr}
    IN  /\ Len(sub) = Cardinality(idx)
        /\ \A k \in 1..Len(sub) : sub[k] = view[Kth(idx, k)]

\* C1: for every (year, driverRef) pair, matched or not, the filter returns
\* exactly the MasterView rows of that year and driver, in MasterView's
\* order (the empty subset for an unmatched pair); the subset the script
\* holds after line 69 is that of the selected pair.
C1_FilterExact ==
    Built =>
        /\ \A y \in YearValues, dr \in DriverValues :
              IsScanOf(select(MASTER, y, dr), MASTER, y, dr)
        /\ (PastFilter \/ pc = "exit") => IsScanOf(df, MASTER, year, driver)

\* the subset has two rows that an unselected row separates in MasterView
C1_Witness ==
    /\ pc = "done"
    /\ Len(df) >= 2
    /\ \E i, j, k \in 1..Len(MASTER) :
          /\ i < j /\ j < k
          /\ MASTER[i] = df[1] /\ MASTER[k] = df[2]
          /\ MASTER[j].driverRef # driver

----------------------------------------------------------------------------
(* C2 *)

Alerts(o) == SelectSeq(o, LAMBDA e : e.kind = "alert")

\* C2: when the selected pair has no row in MasterView the interaction ends
\* at line 72, having emitted exactly one alert, the last thing emitted,
\* which names the driver and the season; no metric has been computed, no
\* chart emitted, and the run has not failed with an error.
C2_EmptyStops ==
    /\ (PastSelectDriver /\ pc # "filter" /\ select(MASTER, year, driver) = <<>>)
          => pc = "exit"
    /\ pc = "exit" =>
          /\ err = "SystemExit"
          /\ Len(Alerts(out)) = 1
          /\ out[Len(out)] = Emitted("alert", "no_data", driver, year)
          /\ \A i \in 1..Len(out) : out[i].kind # "plotly"
          /\ fastest_lap = Unset /\ avg_pit = Unset /\ pts = Unset
          /\ fastest_by_circ = <<>> /\ pits = <<>> /\ pts_df = <<>> /\ map_df = <<>>

\* a stale driver: the season was changed to one the driver did not race in
C2_Witness ==
    /\ pc = "exit"
    /\ wYear # <<>> /\ wDriver # <<>>
    /\ MASTER # <<>>

----------------------------------------------------------------------------
(* C3 *)

\* C3: no numeric coercion raises: whatever the tables hold, the load, the
\* joins and the interaction never stop with the error of a failed cast.
C3_CoercionNeverRaises == err # "ValueError"

----------------------------------------------------------------------------
(* C4 *)

\* the pit-stop rows of the drives (raceId, driverId) of the subset
JoinedPits ==
    {i \in 1..Len(T.pit_stops) :
        \E k \in 1..Len(df) : /\ df[k].raceId = T.pit_stops[i].raceId
                              /\ df[k].driverId = T.pit_stops[i].driverId}

\* those of them whose milliseconds are a number
TimedPits == {i \in JoinedPits : IsNum(T.pit_stops[i].milliseconds)}

\* C4: avg_pit is missing (None) exactly when no pit-stop row joins the
\* subset, and otherwise is a number, the mean of milliseconds/1000 over
\* the joined rows (those whose milliseconds are present).
C4_AvgPitMeanOrMissing ==
    PastAvgPit =>
        /\ avg_pit = None <=> JoinedPits = {}
        /\ JoinedPits # {} =>
              /\ IsNum(avg_pit)
              /\ avg_pit.n * 1000 * Cardinality(TimedPits)
                    = avg_pit.d * SumOver(TimedPits, Column(T.pit_stops, "milliseconds"))

----------------------------------------------------------------------------
(* C5 *)

\* the rows of ResultsView of season y and driver dr that have points
PointRows(y, dr) ==
    {i \in 1..Len(RESULTS) :
        RESULTS[i].year = y /\ RESULTS[i].driverRef = dr /\ IsNum(RESULTS[i].points)}

\* C5: total_points is the sum of the points present in the ResultsView
\* rows of the season and driver, and the number 0 when no row matches; pts
\* of line 96 is total_points of the selected pair.
C5_TotalPoints ==
    Built =>
        /\ \A y \in YearValues, dr \in DriverValues :
              LET p == total_points(y, dr, RESULTS)
              IN  /\ IsNum(p)
                  /\ p.n = p.d * SumOver(PointRows(y, dr), Column(RESULTS, "points"))
                  /\ select(RESULTS, y, dr) = <<>> => p.n = 0
        /\ PastTotalPoints => pts = total_points(year, driver, RESULTS)

\* the selected pair has a row with points and a row whose points are missing
C5_Witness ==
    /\ pc = "done"
    /\ PointRows(year, driver) # {}
    /\ Len(select(RESULTS, year, driver)) > Cardinality(PointRows(year, driver))
    /\ pts.n > 0

----------------------------------------------------------------------------
(* C6 *)

----------------------------------------------------------------------------
(* C7 *)

\* the lap times present of circuit nm in the subset
LapSecsAt(nm) ==
    {df[k].lap_sec : k \in {j \in 1..Len(df) :
                              df[j].circuitName = nm /\ IsNum(df[j].lap_sec)}}

\* C7: fastest_by_circ has one entry for each circuit name of the subset and
\* no other; its value is the least lap_sec of the circuit's rows (missing
\* when the circuit has no lap time); the entries are in non-decreasing
\* order of lap_sec, those without a value last.
C7_FastestPerCircuit ==
    PastFastestByCirc =>
        LET f == fastest_by_circ
        IN  /\ {f[i].circuitName : i \in 1..Len(f)}
                  = {df[k].circuitName : k \in 1..Len(df)}
            /\ \A i, j \in 1..Len(f) : f[i].circuitName = f[j].circuitName => i = j
            /\ \A i \in 1..Len(f) :
                  LET secs == LapSecsAt(f[i].circuitName)
                  IN  IF secs = {} THEN ~IsNum(f[i].lap_sec)
                      ELSE /\ f[i].lap_sec \in secs
                           /\ \A x \in secs : ~NumLess(x, f[i].lap_sec)
            /\ \A i, j \in 1..Len(f) :
                  i < j => /\ IsNum(f[j].lap_sec) => IsNum(f[i].lap_sec)
                           /\ IsNum(f[j].lap_sec) => ~NumLess(f[j].lap_sec, f[i].lap_sec)

\* two circuits, the later name the faster, and one of them with two laps
C7_Witness ==
    /\ pc = "done"
    /\ Len(fastest_by_circ) = 2
    /\ Len(df) = 3
    /\ StrLess(fastest_by_circ[2].circuitName, fastest_by_circ[1].circuitName)
    /\ NumLess(fastest_by_circ[1].lap_sec, fastest_by_circ[2].lap_sec)

----------------------------------------------------------------------------
(* C8 *)

\* how many times the run has emitted the thing called id
Count(id) == Len(SelectSeq(out, LAMBDA e : e.id = id))

\* a section has emitted its chart or its alert, one of them, once
OneOf(chart, alert, empty) ==
    /\ Count(chart) + Count(alert) = 1
    /\ Count(alert) = 1 <=> empty

\* C8: an interaction with a non-empty subset runs to the end of the
\* script, and each of the pit-stop, points and map sections has emitted
\* exactly one of its chart and its alert, the alert exactly when the
\* section has no input rows.
C8_SectionsAllRun ==
    (Ended /\ pc # "exit" /\ df # <<>>) =>
        /\ pc = "done"
        /\ OneOf("fig4", "no_pits", JoinedPits = {})
        /\ OneOf("fig5", "no_points", select(RESULTS, year, driver) = <<>>)
        /\ OneOf("fig6", "no_location",
                 \A k \in 1..Len(df) : ~(IsNum(df[k].lat) /\ IsNum(df[k].lng)))

----------------------------------------------------------------------------
(* C9 *)

UniqueOn(tbl, key) ==
    \A i, j \in 1..Len(tbl) : tbl[i][key] = tbl[j][key] => i = j

UniqueKeys ==
    /\ UniqueOn(T.drivers, "driverId")
    /\ UniqueOn(T.races, "raceId")
    /\ UniqueOn(T.circuits, "circuitId")

\* lap row l, driver row dr, race row r and circuit row c belong together
Context(l, dr, r, c) ==
    /\ dr.driverId = l.driverId
    /\ r.raceId = l.raceId
    /\ c.circuitId = r.circuitId

Rows(tbl) == {tbl[i] : i \in 1..Len(tbl)}

\* the lap rows that have a driver, a race and a circuit for that race
WithContext ==
    {i \in 1..Len(T.lap_times) :
        \E dr \in Rows(T.drivers), r \in Rows(T.races), c \in Rows(T.circuits) :
            Context(T.lap_times[i], dr, r, c)}

\* C9: with unique join keys, MasterView has exactly one row for each
\* lap_times row that has a driver, a race and a circuit, in the order of
\* lap_times, none for the others, and each row carries the driverRef, year,
\* round and circuitName that its keys name.
C9_MasterIsInnerJoin ==
    (Built /\ UniqueKeys) =>
        /\ Len(MASTER) = Cardinality(WithContext)
        /\ Len(MASTER) <= Len(T.lap_times)
        /\ \A k \in 1..Len(MASTER) :
              LET l == T.lap_times[Kth(WithContext, k)]
                  m == MASTER[k]
              IN  /\ m.raceId = l.raceId /\ m.driverId = l.driverId
                  /\ m.lap = l.lap.n
                  /\ m.milliseconds = to_numeric(l.milliseconds)
                  /\ \E dr \in Rows(T.drivers), r \in Rows(T.races),
                        c \in Rows(T.circuits) :
                        /\ Context(l, dr, r, c)
                        /\ m.driverRef = dr.driverRef
                        /\ m.year = r.year /\ m.round = r.round
                        /\ m.circuitName = c.circuitName

\* some lap rows are kept and some are dropped
C9_Witness ==
    /\ Built /\ UniqueKeys
    /\ Len(MASTER) >= 2
    /\ Len(MASTER) < Len(T.lap_times)

----------------------------------------------------------------------------
(* C10 *)

Elems(s) == {s[i] : i \in 1..Len(s)}

\* C10: for a non-empty MasterView the season options are its distinct years
\* in descending order and the driver options are the distinct drivers of
\* the selected year in ascending order; a year and a driver both among the
\* options of the current run give a non-empty subset, and the run does not
\* take the "No data" branch.
C10_OptionsAreValid ==
    (Built /\ MASTER # <<>>) =>
        /\ PastSelectYear =>
              /\ Elems(years) = {MASTER[i].year : i \in 1..Len(MASTER)}
              /\ \A i, j \in 1..Len(years) : i < j => years[i] > years[j]
        /\ PastSelectDriver =>
              /\ Elems(drivers) =
                    {MASTER[i].driverRef : i \in {k \in 1..Len(MASTER) :
                                                    MASTER[k].year = year}}
              /\ \A i, j \in 1..Len(drivers) : i < j => StrLess(drivers[i], drivers[j])
        /\ (PastSelectDriver /\ pc # "filter"
              /\ year \in Elems(years) /\ driver \in Elems(drivers))
              => (df # <<>> /\ pc # "exit")

\* two seasons and two drivers on offer, the user having chosen both
C10_Witness ==
    /\ pc = "done"
    /\ Len(years) = 2 /\ Len(drivers) = 2
    /\ wYear = <<year>> /\ wDriver = <<drivers[2]>>

====
